---- MODULE Spec2Model ----
(***************************************************************************)
(* Schema reconciliation of skydb/pq/schema.go: Extend, RenameSchema,      *)
(* DeleteSchema, GetSchema and the catalog introspection remoteColumnTypes *)
(* with its per-connection RecordSchema cache, run against a model of the  *)
(* relational catalog (tables, ordered columns, owned sequences, foreign   *)
(* keys, triggers).                                                        *)
(***************************************************************************)
EXTENDS Integers, Sequences, FiniteSets, TLC

(***************************************************************************)
(* Bounds of the model.                                                    *)
(***************************************************************************)
\* number of types each field name can be declared with
MaxTypes == 4

\* the record types the session works on
RecordTypes == {"note"}

FieldNames == {"title", "score"}

(***************************************************************************)
(* skydb.DataType tags and skydb.FieldType{Type, ReferenceType}.           *)
(***************************************************************************)
FT(t, r) == [Type |-> t, ReferenceType |-> r]

\* the types a field is declared with: the first MaxTypes of its list
TitleTypes ==
  << FT("String", ""), FT("Reference", "note"), FT("Reference", "collection"),
     FT("Asset", ""), FT("JSON", "") >>
ScoreTypes ==
  << FT("Number", ""), FT("Integer", ""), FT("Sequence", ""), FT("String", ""),
     FT("Boolean", "") >>
FieldTypes(k) ==
  IF k = "title"
  THEN {TitleTypes[i] : i \in 1..MaxTypes}
  ELSE {ScoreTypes[i] : i \in 1..MaxTypes}

\* skydb.RecordSchema: a map from field name to FieldType
EmptySchema == [k \in {} |-> FT("String", "")]
DesiredSchemas ==
  UNION {{S \in [D -> UNION {FieldTypes(k) : k \in D}] :
            \A k \in D : S[k] \in FieldTypes(k)} : D \in SUBSET FieldNames}

(***************************************************************************)
(* Native column types of the relational engine.                           *)
(***************************************************************************)
TypeString == "text"
TypeNumber == "double precision"
TypeTimestamp == "timestamp without time zone"
TypeBoolean == "boolean"
TypeJSON == "jsonb"
TypeLocation == "geometry(Point)"
TypeInteger == "integer"

\* a physical column: native type, the table its foreign key references
\* (ref, "" when none), the relname of the sequence it owns (seq, "" when
\* none), and of its foreign-key constraint the name (fk) and the referenced
\* column (refcol)
Col(n, t, r, s) ==
  [name |-> n, typ |-> t, ref |-> r, seq |-> s, fk |-> "", refcol |-> ""]

\* faulty variant of createTableStmt: the last reserved column is left out
createTableStmt_noUpdatedBy ==
  << Col("_id", TypeString, "", ""),
     Col("_database_id", TypeString, "", ""),
     Col("_owner_id", TypeString, "", ""),
     Col("_access", TypeJSON, "", ""),
     Col("_created_at", TypeTimestamp, "", ""),
     Col("_created_by", TypeString, "", ""),
     Col("_updated_at", TypeTimestamp, "", "") >>

\* the column list of CREATE TABLE
createTableStmt ==
  << Col("_id", TypeString, "", ""),
     Col("_database_id", TypeString, "", ""),
     Col("_owner_id", TypeString, "", ""),
     Col("_access", TypeJSON, "", ""),
     Col("_created_at", TypeTimestamp, "", ""),
     Col("_created_by", TypeString, "", ""),
     Col("_updated_at", TypeTimestamp, "", ""),
     Col("_updated_by", TypeString, "", "") >>

ReservedColumns ==
  {"_id", "_database_id", "_owner_id", "_access",
   "_created_at", "_created_by", "_updated_at", "_updated_by"}

VARIABLES
  tables,   \* catalog: table name -> [cols: ordered columns, trigger: BOOLEAN]
  cache,    \* db.c.RecordSchema: record type -> cached RecordSchema (with
            \* two sessions: session -> its RecordSchema cache)
  last      \* the last call of the session and what it returned (with two
            \* sessions: session -> the Extend call it is making)

vars == <<tables, cache, last>>

(***************************************************************************)
(* Maps.                                                                   *)
(***************************************************************************)
Put(m, k, v) == [x \in DOMAIN m \cup {k} |-> IF x = k THEN v ELSE m[x]]
Delete(m, k) == [x \in DOMAIN m \ {k} |-> m[x]]
ColNames(cols) == {cols[i].name : i \in 1..Len(cols)}
ColOf(cols, n) == cols[CHOOSE i \in 1..Len(cols) : cols[i].name = n]

(***************************************************************************)
(* Catalog introspection.                                                  *)
(***************************************************************************)
\* the switch on pqType of remoteColumnTypes; "?" is the default branch
ColumnDataType(col) ==
  CASE col.typ = TypeString -> "String"
    [] col.typ = TypeNumber -> "Number"
    [] col.typ = TypeTimestamp -> "DateTime"
    [] col.typ = TypeBoolean -> "Boolean"
    [] col.typ = TypeJSON -> IF col.name = "_access" THEN "ACL" ELSE "JSON"
    [] col.typ = TypeLocation -> "Location"
    [] col.typ = TypeInteger -> "Integer"
    [] OTHER -> "?"

\* index of the first row whose native type is unknown, Len + 1 when none
FirstUnknown(cols) ==
  LET bad == {i \in 1..Len(cols) : ColumnDataType(cols[i]) = "?"}
  IN  IF bad = {} THEN Len(cols) + 1
      ELSE CHOOSE i \in bad : \A j \in bad : i <= j

\* typemap after the first n rows of STEP 2
ScanRows(cols, n) ==
  [k \in {cols[i].name : i \in 1..n} |->
     FT(ColumnDataType(ColOf(cols, k)), "")]

\* the relname <recordType>_<column>_seq that the pattern of getSequences
\* is built for
Relname(recordType, column) == recordType \o "_" \o column \o "_seq"

\* the sequences of the schema, whatever table owns them
Sequences(tbls) ==
  UNION {{tbls[t].cols[i].seq : i \in 1..Len(tbls[t].cols)} : t \in DOMAIN tbls}
    \ {""}

\* getSequences: of the relnames of the schema LIKE <recordType>\_%\_seq,
\* what is left between the prefix <recordType>_ and the suffix _seq. A
\* relname yields the name k exactly when it is <recordType>_k_seq; the
\* names that are columns of the table are listed, the only ones STEP 2.1
\* looks up
getSequences(tbls, recordType) ==
  LET relnames == Sequences(tbls)
  IN  {k \in ColNames(tbls[recordType].cols) :
         Relname(recordType, k) \in relnames}

\* STEP 2.1: integer columns with a listed sequence become Sequence
ConvertSequences(typemap, sequenceList) ==
  [k \in DOMAIN typemap |->
     IF typemap[k].Type = "Integer" /\ k \in sequenceList
     THEN FT("Sequence", "") ELSE typemap[k]]

\* the foreign-key constraints of a table: name, column, referenced table
ForeignKeys(tbls, t) ==
  {[name |-> tbls[t].cols[i].fk, column |-> tbls[t].cols[i].name,
    table |-> tbls[t].cols[i].ref] :
     i \in {j \in 1..Len(tbls[t].cols) : tbls[t].cols[j].fk # ""}}

\* the rows (kcu.column_name, ccu.table_name) of the query of STEP 3:
\* table_constraints is restricted to the table, key_column_usage and
\* constraint_column_usage are joined to it on the constraint name alone
ForeignKeyRows(tbls, recordType) ==
  LET all == UNION {ForeignKeys(tbls, t) : t \in DOMAIN tbls}
  IN  UNION {{<<kcu.column, ccu.table>> :
                kcu \in {x \in all : x.name = tc.name},
                ccu \in {x \in all : x.name = tc.name}} :
             tc \in ForeignKeys(tbls, recordType)}

\* STEP 3: every row overwrites the entry of its column; of the rows of one
\* column the one scanned last stays, which matters only when they differ
ApplyForeignKeys(typemap, rows) ==
  [k \in DOMAIN typemap \cup {r[1] : r \in rows} |->
     IF k \in {r[1] : r \in rows}
     THEN LET referencedTable == (CHOOSE r \in rows : r[1] = k)[2]
          IN  IF referencedTable = "_asset"
              THEN FT("Asset", "")
              ELSE FT("Reference", referencedTable)
     ELSE typemap[k]]

\* faulty variant of DeferredStore: an empty typemap is not cached
DeferredStore_nonEmpty(c, recordType, typemap) ==
  IF DOMAIN typemap = {} THEN c ELSE Put(c, recordType, typemap)

\* the deferred store of typemap into the cache when remoteColumnTypes
\* returns past STEP 0
DeferredStore(c, recordType, typemap) == Put(c, recordType, typemap)

\* faulty variant of QueryOid: sql.ErrNoRows is not told from other errors
QueryOid_noRowsIsError(tbls, recordType, fault) ==
  IF fault = "oid" \/ recordType \notin DOMAIN tbls THEN "error"
  ELSE "found"

\* STEP 1: the oid of the table: found, sql.ErrNoRows or another error
QueryOid(tbls, recordType, fault) ==
  IF fault = "oid" THEN "error"
  ELSE IF recordType \notin DOMAIN tbls THEN "ErrNoRows"
  ELSE "found"

\* the error of the default branch of the switch on pqType
UnknownTypeError(col) ==
  "received unknown data type = " \o col.typ \o " for column = " \o col.name

\* what remoteColumnTypes returns (schema, isNil, err: "" for nil), the
\* cache it leaves, the catalog queries it issued, and whether the failure
\* the backing store was set to produce has occurred
Outcome(schema, isNil, err, c, q, fired) ==
  [schema |-> schema, isNil |-> isNil, err |-> err, cache |-> c,
   queries |-> q, fired |-> fired]

\* remoteColumnTypes under cache c and catalog tbls; fault names the
\* statement the backing store fails ("none": no failure), scanRow the
\* row whose Scan fails when fault is "scan"
remoteColumnTypes(c, tbls, recordType, fault, scanRow) ==
  IF recordType \in DOMAIN c
  THEN Outcome(c[recordType], FALSE, "", c, 0, FALSE)
  ELSE IF QueryOid(tbls, recordType, fault) = "error"
  THEN Outcome(EmptySchema, TRUE, "oid",
               DeferredStore(c, recordType, EmptySchema), 1, TRUE)
  ELSE IF QueryOid(tbls, recordType, fault) = "ErrNoRows"
  THEN Outcome(EmptySchema, TRUE, "",
               DeferredStore(c, recordType, EmptySchema), 1, FALSE)
  ELSE IF fault = "columns"
  THEN Outcome(EmptySchema, TRUE, "columns",
               DeferredStore(c, recordType, EmptySchema), 2, TRUE)
  ELSE
    LET cols == tbls[recordType].cols
        unknown == FirstUnknown(cols)
        failAt == IF fault = "scan" /\ scanRow <= unknown
                  THEN scanRow ELSE unknown
        scanned == ScanRows(cols, failAt - 1)
        all == ScanRows(cols, Len(cols))
        ints == {k \in DOMAIN all : all[k].Type = "Integer"}
        seqd == IF ints = {} THEN all
                ELSE ConvertSequences(all, getSequences(tbls, recordType))
        q == IF ints = {} THEN 2 ELSE 3
        done == ApplyForeignKeys(seqd, ForeignKeyRows(tbls, recordType))
    IN  IF failAt <= Len(cols)
        THEN IF fault = "scan" /\ failAt = scanRow
             THEN Outcome(EmptySchema, TRUE, "scan",
                          DeferredStore(c, recordType, scanned), 2, TRUE)
             ELSE Outcome(EmptySchema, TRUE, UnknownTypeError(cols[failAt]),
                          DeferredStore(c, recordType, scanned), 2, FALSE)
        ELSE IF ints # {} /\ fault = "sequences"
        THEN Outcome(EmptySchema, TRUE, "sequences",
                     DeferredStore(c, recordType, all), 3, TRUE)
        ELSE IF fault = "fkeys"
        THEN Outcome(EmptySchema, TRUE, "fkeys",
                     DeferredStore(c, recordType, seqd), q + 1, TRUE)
        ELSE Outcome(done, FALSE, "",
                     DeferredStore(c, recordType, done), q + 1, FALSE)

(***************************************************************************)
(* The relational engine executing the DDL statements.                     *)
(***************************************************************************)
Stmt(kind, ok) == [stmt |-> kind, ok |-> ok]

\* faulty variant of ExecCreateTable: a relation that exists is replaced
ExecCreateTable_replace(tbls, t, fault) ==
  IF fault = "create"
  THEN [ok |-> FALSE, tables |-> tbls]
  ELSE [ok |-> TRUE,
        tables |-> Put(tbls, t, [cols |-> createTableStmt, trigger |-> FALSE])]

\* CREATE TABLE: rejected when the relation exists
ExecCreateTable(tbls, t, fault) ==
  IF t \in DOMAIN tbls \/ fault = "create"
  THEN [ok |-> FALSE, tables |-> tbls]
  ELSE [ok |-> TRUE,
        tables |-> Put(tbls, t, [cols |-> createTableStmt, trigger |-> FALSE])]

\* CREATE TRIGGER ... EXECUTE PROCEDURE public.notify_record_change()
ExecCreateTrigger(tbls, t, fault) ==
  IF t \notin DOMAIN tbls \/ tbls[t].trigger \/ fault = "trigger"
  THEN [ok |-> FALSE, tables |-> tbls]
  ELSE [ok |-> TRUE, tables |-> [tbls EXCEPT ![t].trigger = TRUE]]

\* the relation names taken in the schema: tables and sequences
Relations(tbls) == DOMAIN tbls \cup Sequences(tbls)

\* the name the engine gives the sequence of a serial column: the relname
\* <table>_<column>_seq, with the first free number appended when taken
SerialSequence(tbls, t, column) ==
  IF Relname(t, column) \notin Relations(tbls) THEN Relname(t, column)
  ELSE IF Relname(t, column) \o "1" \notin Relations(tbls)
  THEN Relname(t, column) \o "1"
  ELSE Relname(t, column) \o "2"

\* faulty variant of ExecAddColumns: the table is rebuilt with the reserved
\* columns and the new ones, losing the columns added before
ExecAddColumns_rebuild(tbls, t, newCols, fault) ==
  IF t \notin DOMAIN tbls \/ fault = "alter"
  THEN [ok |-> FALSE, tables |-> tbls]
  ELSE [ok |-> TRUE,
        tables |-> [tbls EXCEPT ![t].cols = createTableStmt \o newCols]]

\* one ALTER TABLE t ADD ..., ADD CONSTRAINT ...: all columns or none.
\* Rejected for a column that exists, a referenced table that does not, and
\* a constraint name the table already has
ExecAddColumns(tbls, t, newCols, fault) ==
  IF \/ t \notin DOMAIN tbls
     \/ fault = "alter"
     \/ \E i \in 1..Len(newCols) :
          \/ newCols[i].name \in ColNames(tbls[t].cols)
          \/ newCols[i].ref \notin DOMAIN tbls \cup {"", "_asset"}
          \/ /\ newCols[i].fk # ""
             /\ \/ \E j \in 1..Len(tbls[t].cols) :
                     tbls[t].cols[j].fk = newCols[i].fk
                \/ \E j \in 1..Len(newCols) :
                     j # i /\ newCols[j].fk = newCols[i].fk
  THEN [ok |-> FALSE, tables |-> tbls]
  ELSE [ok |-> TRUE, tables |-> [tbls EXCEPT ![t].cols = @ \o newCols]]

\* ALTER TABLE t RENAME old TO new
ExecRename(tbls, t, old, new, fault) ==
  IF \/ t \notin DOMAIN tbls
     \/ fault = "alter"
     \/ old \notin ColNames(tbls[t].cols)
     \/ new \in ColNames(tbls[t].cols)
  THEN [ok |-> FALSE, tables |-> tbls]
  ELSE [ok |-> TRUE,
        tables |-> [tbls EXCEPT ![t].cols =
                     [i \in 1..Len(@) |->
                        IF @[i].name = old THEN [@[i] EXCEPT !.name = new]
                        ELSE @[i]]]]

\* ALTER TABLE t DROP col; the sequence the column owns goes with it
ExecDrop(tbls, t, col, fault) ==
  IF \/ t \notin DOMAIN tbls
     \/ fault = "alter"
     \/ col \notin ColNames(tbls[t].cols)
  THEN [ok |-> FALSE, tables |-> tbls]
  ELSE [ok |-> TRUE,
        tables |-> [tbls EXCEPT ![t].cols =
                     SelectSeq(@, LAMBDA c : c.name # col)]]

(***************************************************************************)
(* Extend and its helpers.                                                 *)
(***************************************************************************)
IsNumberCompatibleType(t) == t \in {"Number", "Integer", "Sequence"}

\* faulty variant of isConflict: a type is compared with itself
isConflict_selfCompare(from, to) ==
  IF from.Type = from.Type THEN FALSE
  ELSE IF IsNumberCompatibleType(from.Type) /\ IsNumberCompatibleType(to.Type)
  THEN FALSE
  ELSE TRUE

\* faulty variant of isConflict: the numeric types are not interchangeable
isConflict_strict(from, to) ==
  IF from.Type = to.Type THEN FALSE
  ELSE TRUE

isConflict(from, to) ==
  IF from.Type = to.Type THEN FALSE
  ELSE IF IsNumberCompatibleType(from.Type) /\ IsNumberCompatibleType(to.Type)
  THEN FALSE
  ELSE TRUE

\* native type of an added column
pqDataType(t) ==
  CASE t \in {"String", "Asset", "Reference"} -> TypeString
    [] t = "Number" -> TypeNumber
    [] t \in {"Integer", "Sequence"} -> TypeInteger
    [] t = "DateTime" -> TypeTimestamp
    [] t = "Boolean" -> TypeBoolean
    [] t = "JSON" -> TypeJSON
    [] t = "Location" -> TypeLocation

\* faulty variant of writeForeignKeyConstraint: the referenced column is
\* the local column
writeForeignKeyConstraint_localColumn(localCol, referent, remoteCol) ==
  [name |-> "fk_" \o localCol \o "_" \o referent \o "_" \o remoteCol,
   column |-> localCol, table |-> referent, refcol |-> localCol]

\* the clause ADD CONSTRAINT fk_<localCol>_<referent>_<remoteCol>
\* FOREIGN KEY (localCol) REFERENCES referent (remoteCol)
writeForeignKeyConstraint(localCol, referent, remoteCol) ==
  [name |-> "fk_" \o localCol \o "_" \o referent \o "_" \o remoteCol,
   column |-> localCol, table |-> referent, refcol |-> remoteCol]

NoConstraint == [name |-> "", column |-> "", table |-> "", refcol |-> ""]

\* the columns of the one ALTER TABLE statement, in the order the map is
\* ranged over, each ADD with the ADD CONSTRAINT that follows it; a serial
\* column comes with the sequence the engine creates for it
addColumnStmt(tbls, recordType, recordSchema, order) ==
  [i \in 1..Len(order) |->
     LET column == order[i]
         schema == recordSchema[column]
         fkey == CASE schema.Type = "Asset" ->
                        writeForeignKeyConstraint(column, "_asset", "id")
                   [] schema.Type = "Reference" ->
                        writeForeignKeyConstraint(column, schema.ReferenceType,
                                                  "_id")
                   [] OTHER -> NoConstraint
     IN  [Col(column, pqDataType(schema.Type), fkey.table,
              IF schema.Type = "Sequence"
              THEN SerialSequence(tbls, recordType, column) ELSE "")
            EXCEPT !.fk = fkey.name, !.refcol = fkey.refcol]]

\* the orders in which a map with key set D can be ranged over
Orders(D) ==
  {o \in [1..Cardinality(D) -> D] : \A i, j \in DOMAIN o : i # j => o[i] # o[j]}

\* createTable: CREATE TABLE, then CREATE TRIGGER
createTable(tbls, recordType, fault) ==
  LET ct == ExecCreateTable(tbls, recordType, fault)
      tr == ExecCreateTrigger(ct.tables, recordType, fault)
  IN  IF ~ct.ok
      THEN [err |-> "create table", tables |-> tbls,
            ddl |-> <<Stmt("CREATE TABLE", FALSE)>>,
            fired |-> fault = "create"]
      ELSE [err |-> IF tr.ok THEN "" ELSE "create table", tables |-> tr.tables,
            ddl |-> <<Stmt("CREATE TABLE", TRUE), Stmt("CREATE TRIGGER", tr.ok)>>,
            fired |-> fault = "trigger"]

\* the fields of the loop of Extend: absent remotely, and in conflict
UpdatingSchema(remote, recordSchema) ==
  [k \in DOMAIN recordSchema \ DOMAIN remote |-> recordSchema[k]]

Conflicts(remote, recordSchema) ==
  {k \in DOMAIN recordSchema \cap DOMAIN remote :
     isConflict(remote[k], recordSchema[k])}

\* faulty variant of InvalidateCache: the entry is kept
InvalidateCache_skip(c, recordType) == c

\* delete(db.c.RecordSchema, recordType)
InvalidateCache(c, recordType) == Delete(c, recordType)

\* what Extend returns (err: "" for nil), the catalog and cache it leaves,
\* the DDL statements it executed, the remote schema it worked from
Result(err, tbls, c, ddl, remote, fired) ==
  [err |-> err, tables |-> tbls, cache |-> c, ddl |-> ddl, remote |-> remote,
   fired |-> fired]

ExtendResult(c, tbls, recordType, recordSchema, fault, scanRow, order) ==
  LET r == remoteColumnTypes(c, tbls, recordType, fault, scanRow)
      remote == r.schema
      ct == IF DOMAIN remote = {}
            THEN createTable(tbls, recordType, fault)
            ELSE [err |-> "", tables |-> tbls, ddl |-> <<>>, fired |-> FALSE]
      updatingSchema == UpdatingSchema(remote, recordSchema)
      alter == ExecAddColumns(ct.tables, recordType,
                 addColumnStmt(ct.tables, recordType, updatingSchema, order),
                 fault)
  IN  IF r.err # ""
      THEN Result("introspect", tbls, r.cache, <<>>, remote, r.fired)
      ELSE IF ct.err # ""
      THEN Result("create table", ct.tables, r.cache, ct.ddl, remote, ct.fired)
      ELSE IF Conflicts(remote, recordSchema) # {}
      THEN Result("conflict", ct.tables, r.cache, ct.ddl, remote, FALSE)
      ELSE IF DOMAIN updatingSchema = {}
      THEN Result("", ct.tables, InvalidateCache(r.cache, recordType),
                  ct.ddl, remote, FALSE)
      ELSE IF ~alter.ok
      THEN Result("alter table", ct.tables, r.cache,
                  Append(ct.ddl, Stmt("ALTER TABLE ADD", FALSE)), remote,
                  fault = "alter")
      ELSE Result("", alter.tables, InvalidateCache(r.cache, recordType),
                  Append(ct.ddl, Stmt("ALTER TABLE ADD", TRUE)), remote, FALSE)

(***************************************************************************)
(* The calls of one session.                                               *)
(***************************************************************************)
\* the statement the backing store fails during a call, with the row
\* whose Scan fails: the first row, or the first row after the reserved
\* columns
IntrospectFaults ==
  {<<f, 0>> : f \in {"none", "oid", "columns", "sequences", "fkeys"}}
    \cup {<<"scan", 1>>, <<"scan", Len(createTableStmt) + 1>>}
ExtendFaults ==
  IntrospectFaults \cup {<<f, 0>> : f \in {"create", "trigger", "alter"}}
AlterFaults == {"none", "alter"}

\* a call: the operation, its record type, the error it returned ("" for
\* nil) and the DDL statements it executed, each with whether it took effect
Call(op, rt, err, ddl) == [op |-> op, rt |-> rt, err |-> err, ddl |-> ddl]

\* the catalog a session starts on: no record type has a table, or an
\* earlier session has created the table of "collection"
NoTables == [t \in {} |-> [cols |-> <<>>, trigger |-> FALSE]]
InitTables ==
  {NoTables, createTable(NoTables, "collection", "none").tables}

Init ==
  /\ tables \in InitTables
  /\ cache = [t \in {} |-> EmptySchema]
  /\ last = Call("", "", "", <<>>)

Extend(recordType, recordSchema, fault, scanRow, order) ==
  LET r == ExtendResult(cache, tables, recordType, recordSchema, fault,
                        scanRow, order)
  IN  /\ fault = "none" \/ r.fired
      /\ tables' = r.tables
      /\ cache' = r.cache
      /\ last' = Call("Extend", recordType, r.err, r.ddl)

RenameSchema(recordType, oldName, newName, fault) ==
  LET r == ExecRename(tables, recordType, oldName, newName, fault)
  IN  /\ tables' = r.tables
      /\ cache' = cache
      /\ last' = Call("RenameSchema", recordType,
                      IF r.ok THEN "" ELSE "alter table",
                      <<Stmt("ALTER TABLE RENAME", r.ok)>>)

DeleteSchema(recordType, columnName, fault) ==
  LET r == ExecDrop(tables, recordType, columnName, fault)
  IN  /\ tables' = r.tables
      /\ cache' = cache
      /\ last' = Call("DeleteSchema", recordType,
                      IF r.ok THEN "" ELSE "alter table",
                      <<Stmt("ALTER TABLE DROP", r.ok)>>)

GetSchema(recordType, fault, scanRow) ==
  LET r == remoteColumnTypes(cache, tables, recordType, fault, scanRow)
  IN  /\ fault = "none" \/ r.fired
      /\ tables' = tables
      /\ cache' = r.cache
      /\ last' = Call("GetSchema", recordType,
                      IF r.err = "" THEN "" ELSE "introspect", <<>>)

(***************************************************************************)
(* GetRecordSchemas.                                                       *)
(***************************************************************************)
\* what can follow the first character of a table name
TableNameTails == {"asset", "note", "collection"}

\* table_name LIKE '\_%': the name starts with an underscore
LikeUnderscore(t) == \E x \in TableNameTails : t = "_" \o x

\* the rows of the query on information_schema.tables
ListedTables(tbls) == {t \in DOMAIN tbls : ~LikeUnderscore(t)}

\* what GetRecordSchemas returns (result, isNil, err), the cache it leaves
Schemas(result, isNil, err, c, fired) ==
  [result |-> result, isNil |-> isNil, err |-> err, cache |-> c,
   fired |-> fired]

NoSchemas == [t \in {} |-> EmptySchema]

\* the loop over the rows from row i on; the failure the backing store is
\* set to produce strikes at row failAt
RECURSIVE GetSchemasFrom(_, _, _, _, _, _, _, _)
\* faulty variant of GetSchemasFrom: a table whose introspection fails is
\* left out and the loop goes on
GetSchemasFrom_bestEffort(c, tbls, rows, i, result, fault, failAt, scanRow) ==
  IF i > Len(rows)
  THEN Schemas(result, FALSE, "", c, FALSE)
  ELSE IF fault = "listscan" /\ failAt = i
  THEN Schemas(NoSchemas, TRUE, "scan", c, TRUE)
  ELSE
    LET g == remoteColumnTypes(c, tbls, rows[i],
                               IF failAt = i THEN fault ELSE "none", scanRow)
    IN  IF g.err # ""
        THEN GetSchemasFrom(g.cache, tbls, rows, i + 1, result,
                            fault, failAt, scanRow)
        ELSE GetSchemasFrom(g.cache, tbls, rows, i + 1,
                            Put(result, rows[i], g.schema),
                            fault, failAt, scanRow)

GetSchemasFrom(c, tbls, rows, i, result, fault, failAt, scanRow) ==
  IF i > Len(rows)
  THEN Schemas(result, FALSE, "", c, FALSE)
  ELSE IF fault = "listscan" /\ failAt = i
  THEN Schemas(NoSchemas, TRUE, "scan", c, TRUE)
  ELSE
    LET g == remoteColumnTypes(c, tbls, rows[i],
                               IF failAt = i THEN fault ELSE "none", scanRow)
    IN  IF g.err # ""
        THEN Schemas(NoSchemas, TRUE, g.err, g.cache, g.fired)
        ELSE GetSchemasFrom(g.cache, tbls, rows, i + 1,
                            Put(result, rows[i], g.schema),
                            fault, failAt, scanRow)

\* GetRecordSchemas, the listing returning its rows in the order rows
GetRecordSchemasResult(c, tbls, rows, fault, failAt, scanRow) ==
  IF fault = "list"
  THEN Schemas(NoSchemas, TRUE, "list", c, TRUE)
  ELSE GetSchemasFrom(c, tbls, rows, 1, NoSchemas, fault, failAt, scanRow)

GetRecordSchemas(rows, fault, failAt, scanRow) ==
  LET r == GetRecordSchemasResult(cache, tables, rows, fault, failAt, scanRow)
  IN  /\ fault = "none" \/ r.fired
      /\ tables' = tables
      /\ cache' = r.cache
      /\ last' = Call("GetRecordSchemas", "",
                      CASE r.err = "" -> ""
                        [] r.err \in {"list", "scan"} /\ fault \in {"list", "listscan"}
                             -> "list"
                        [] OTHER -> "introspect",
                      <<>>)

Next ==
  \/ \E rt \in RecordTypes, f \in ExtendFaults :
        \* a failure before the loop over the desired schema returns before
        \* the schema is read: one schema stands for all
        LET remote == remoteColumnTypes(cache, tables, rt, f[1], f[2]).schema
        IN  \E S \in IF f[1] \in {"none", "alter"} THEN DesiredSchemas
                      ELSE {EmptySchema} :
              \E order \in Orders(DOMAIN S \ DOMAIN remote) :
                Extend(rt, S, f[1], f[2], order)
  \/ \E rt \in RecordTypes, old \in FieldNames, new \in FieldNames,
        f \in AlterFaults :
        RenameSchema(rt, old, new, f)
  \/ \E rt \in RecordTypes, col \in FieldNames, f \in AlterFaults :
        DeleteSchema(rt, col, f)
  \/ \E rt \in RecordTypes, f \in IntrospectFaults :
        GetSchema(rt, f[1], f[2])

Spec == Init /\ [][Next]_vars

\* one session making GetSchema and Extend calls only
NextExtend ==
  \/ \E rt \in RecordTypes, f \in ExtendFaults :
        LET remote == remoteColumnTypes(cache, tables, rt, f[1], f[2]).schema
        IN  \E S \in IF f[1] \in {"none", "alter"} THEN DesiredSchemas
                      ELSE {EmptySchema} :
              \E order \in Orders(DOMAIN S \ DOMAIN remote) :
                Extend(rt, S, f[1], f[2], order)
  \/ \E rt \in RecordTypes, f \in IntrospectFaults :
        GetSchema(rt, f[1], f[2])

SpecExtend == Init /\ [][NextExtend]_vars

(***************************************************************************)
(* Record types and fields whose names share parts: the relname of a       *)
(* sequence and the name of a foreign-key constraint are built from them   *)
(* by concatenation.                                                       *)
(***************************************************************************)
NameRecordTypes == {"note", "note_list", "list"}

\* the fields each record type is declared with, and their types
NameFieldTypes(recordType) ==
  CASE recordType = "note" ->
         [list_rank |-> {FT("Integer", ""), FT("Sequence", "")}]
    [] recordType = "note_list" ->
         [rank |-> {FT("Integer", ""), FT("Sequence", "")},
          parent |-> {FT("Reference", "note_list")}]
    [] recordType = "list" ->
         [parent_note |-> {FT("Reference", "list")}]

NameSchemas(recordType) ==
  LET types == NameFieldTypes(recordType)
  IN  UNION {{S \in [D -> UNION {types[k] : k \in D}] :
                \A k \in D : S[k] \in types[k]} : D \in SUBSET DOMAIN types}

\* one session declaring these record types, no statement failing
NextNames ==
  \/ \E rt \in NameRecordTypes :
        LET remote == remoteColumnTypes(cache, tables, rt, "none", 0).schema
        IN  \E S \in NameSchemas(rt) :
              \E order \in Orders(DOMAIN S \ DOMAIN remote) :
                Extend(rt, S, "none", 0, order)
  \/ \E rt \in NameRecordTypes : GetSchema(rt, "none", 0)

InitNames ==
  /\ tables = NoTables
  /\ cache = [t \in {} |-> EmptySchema]
  /\ last = Call("", "", "", <<>>)

SpecNames == InitNames /\ [][NextNames]_vars

(***************************************************************************)
(* A schema found as earlier sessions and the administrator left it: the   *)
(* asset table, record tables, columns added to them outside Extend.       *)
(***************************************************************************)
CatalogRecordTypes == {"note", "collection"}

\* columns added outside Extend: one of a native type remoteColumnTypes
\* does not know, one of type jsonb
ExternalColumns ==
  {Col("views", "bigint", "", ""), Col("meta", TypeJSON, "", "")}

AssetTable == [cols |-> <<Col("id", TypeString, "", "")>>, trigger |-> FALSE]

SeedTables ==
  {[cols |-> createTableStmt \o extra, trigger |-> TRUE] :
     extra \in {<<>>} \cup {<<col>> : col \in ExternalColumns}}

CatalogSeeds ==
  UNION {{[t \in D \cup {"_asset"} |->
             IF t = "_asset" THEN AssetTable ELSE seed[t]] :
            seed \in [D -> SeedTables]} : D \in SUBSET CatalogRecordTypes}

CatalogSchemas == {EmptySchema, [title |-> FT("String", "")]}

\* the statement the backing store fails during GetRecordSchemas: the
\* listing, the Scan of a row of it, or a statement of an introspection
ListFaults == IntrospectFaults \cup {<<"list", 0>>, <<"listscan", 0>>}

InitCatalog ==
  /\ tables \in CatalogSeeds
  /\ cache = [t \in {} |-> EmptySchema]
  /\ last = Call("", "", "", <<>>)

NextCatalog ==
  \/ \E rt \in CatalogRecordTypes, f \in IntrospectFaults :
        GetSchema(rt, f[1], f[2])
  \/ \E rows \in Orders(ListedTables(tables)), f \in ListFaults,
        failAt \in 1..Cardinality(CatalogRecordTypes) :
        GetRecordSchemas(rows, f[1], failAt, f[2])
  \/ \E rt \in CatalogRecordTypes :
        LET remote == remoteColumnTypes(cache, tables, rt, "none", 0).schema
        IN  \E S \in CatalogSchemas :
              \E order \in Orders(DOMAIN S \ DOMAIN remote) :
                Extend(rt, S, "none", 0, order)

SpecCatalog == InitCatalog /\ [][NextCatalog]_vars

(***************************************************************************)
(* Two sessions, each on its own connection with its own RecordSchema      *)
(* cache, each making one Extend call for the same record type: a step is  *)
(* one statement sent to the engine, with what Extend does before the next *)
(* one.                                                                    *)
(***************************************************************************)
Sessions == {"a", "b"}
RaceRecordType == "note"

\* the schemas the sessions declare
RaceSchemas ==
  {S \in DesiredSchemas : \A k \in DOMAIN S : S[k].Type \in {"String", "Number"}}

\* an Extend call under way: where it is, its recordSchema argument, its
\* remoteRecordSchema, the error it returned and the DDL it executed
Running(pc, S, remote, err, ddl) ==
  [pc |-> pc, S |-> S, remote |-> remote, err |-> err, ddl |-> ddl]

InitRace ==
  /\ tables = NoTables
  /\ cache = [s \in Sessions |-> [t \in {} |-> EmptySchema]]
  /\ last = [s \in Sessions |->
               Running("idle", EmptySchema, EmptySchema, "", <<>>)]

\* Extend is called; STEP 0 of remoteColumnTypes
RaceCall(s, S) ==
  /\ last[s].pc = "idle"
  /\ last' = [last EXCEPT ![s] =
       IF RaceRecordType \in DOMAIN cache[s]
       THEN Running(IF DOMAIN cache[s][RaceRecordType] = {}
                    THEN "create" ELSE "alter",
                    S, cache[s][RaceRecordType], "", <<>>)
       ELSE Running("oid", S, EmptySchema, "", <<>>)]
  /\ UNCHANGED <<tables, cache>>

\* STEP 1 of remoteColumnTypes: sql.ErrNoRows returns nil, the deferred
\* store caching the empty typemap
RaceOid(s) ==
  /\ last[s].pc = "oid"
  /\ IF QueryOid(tables, RaceRecordType, "none") = "ErrNoRows"
     THEN /\ cache' = [cache EXCEPT ![s] =
                         DeferredStore(@, RaceRecordType, EmptySchema)]
          /\ last' = [last EXCEPT ![s].pc = "create"]
     ELSE /\ cache' = cache
          /\ last' = [last EXCEPT ![s].pc = "columns"]
  /\ UNCHANGED tables

\* STEP 2 to 3 of remoteColumnTypes, then line 35 of Extend
RaceColumns(s) ==
  LET r == remoteColumnTypes(cache[s], tables, RaceRecordType, "none", 0)
  IN  /\ last[s].pc = "columns"
      /\ cache' = [cache EXCEPT ![s] = r.cache]
      /\ last' = [last EXCEPT ![s].remote = r.schema,
                              ![s].pc = IF DOMAIN r.schema = {}
                                        THEN "create" ELSE "alter"]
      /\ UNCHANGED tables

\* createTable: the CREATE TABLE statement
RaceCreateTable(s) ==
  LET x == ExecCreateTable(tables, RaceRecordType, "none")
  IN  /\ last[s].pc = "create"
      /\ tables' = x.tables
      /\ last' = [last EXCEPT
                    ![s].ddl = Append(@, Stmt("CREATE TABLE", x.ok)),
                    ![s].err = IF x.ok THEN "" ELSE "create table",
                    ![s].pc = IF x.ok THEN "trigger" ELSE "done"]
      /\ UNCHANGED cache

\* createTable: the CREATE TRIGGER statement
RaceCreateTrigger(s) ==
  LET x == ExecCreateTrigger(tables, RaceRecordType, "none")
  IN  /\ last[s].pc = "trigger"
      /\ tables' = x.tables
      /\ last' = [last EXCEPT
                    ![s].ddl = Append(@, Stmt("CREATE TRIGGER", x.ok)),
                    ![s].err = IF x.ok THEN "" ELSE "create table",
                    ![s].pc = IF x.ok THEN "alter" ELSE "done"]
      /\ UNCHANGED cache

\* the loop of Extend, the ALTER TABLE statement, the delete of the cache
\* entry and the return
RaceAlter(s, order) ==
  LET updatingSchema == UpdatingSchema(last[s].remote, last[s].S)
      x == ExecAddColumns(tables, RaceRecordType,
             addColumnStmt(tables, RaceRecordType, updatingSchema, order),
             "none")
  IN  /\ last[s].pc = "alter"
      /\ IF Conflicts(last[s].remote, last[s].S) # {}
         THEN /\ last' = [last EXCEPT ![s].err = "conflict", ![s].pc = "done"]
              /\ UNCHANGED <<tables, cache>>
         ELSE IF DOMAIN updatingSchema = {}
         THEN /\ last' = [last EXCEPT ![s].pc = "done"]
              /\ cache' = [cache EXCEPT ![s] = InvalidateCache(@, RaceRecordType)]
              /\ UNCHANGED tables
         ELSE /\ tables' = x.tables
              /\ last' = [last EXCEPT
                            ![s].ddl = Append(@, Stmt("ALTER TABLE ADD", x.ok)),
                            ![s].err = IF x.ok THEN "" ELSE "alter table",
                            ![s].pc = "done"]
              /\ cache' = IF x.ok
                          THEN [cache EXCEPT
                                  ![s] = InvalidateCache(@, RaceRecordType)]
                          ELSE cache

NextRace ==
  \/ \E s \in Sessions, S \in RaceSchemas : RaceCall(s, S)
  \/ \E s \in Sessions : RaceOid(s)
  \/ \E s \in Sessions : RaceColumns(s)
  \/ \E s \in Sessions : RaceCreateTable(s)
  \/ \E s \in Sessions : RaceCreateTrigger(s)
  \/ \E s \in Sessions :
        \E order \in Orders(DOMAIN last[s].S \ DOMAIN last[s].remote) :
          RaceAlter(s, order)

SpecRace == InitRace /\ [][NextRace]_vars

(***************************************************************************)
(* Vocabulary of the properties.                                           *)
(***************************************************************************)
NoCache == [t \in {} |-> EmptySchema]

\* the schema derived from the current physical columns of a table: what
\* introspection assembles when nothing is cached and no query fails
PhysicalSchema(tbls, rt) == remoteColumnTypes(NoCache, tbls, rt, "none", 0).schema

\* the orders in which Extend can add the fields it stages
StagedOrders(c, tbls, rt, S, f) ==
  Orders(DOMAIN S \ DOMAIN remoteColumnTypes(c, tbls, rt, f[1], f[2]).schema)

\* Extend(rt, S) called in the current state, and called in the state a
\* first result r left
ExtendNow(rt, S, f, order) ==
  ExtendResult(cache, tables, rt, S, f[1], f[2], order)
ExtendAfter(r, rt, S, f, order) ==
  ExtendResult(r.cache, r.tables, rt, S, f[1], f[2], order)

NoFault == <<"none", 0>>
\* no failure, or the failure of a DDL statement
DDLFaults == {NoFault} \cup {<<f, 0>> : f \in {"create", "trigger", "alter"}}

NumericTypes == {"Number", "Integer", "Sequence"}
\* same type tag, or both numeric
Compatible(R, D) ==
  R.Type = D.Type \/ (R.Type \in NumericTypes /\ D.Type \in NumericTypes)

Executed(ddl, kind) == \E i \in 1..Len(ddl) : ddl[i].stmt = kind
TookEffect(ddl, kind) ==
  \E i \in 1..Len(ddl) : ddl[i].stmt = kind /\ ddl[i].ok

(***************************************************************************)
(* C1: for any record type and desired schema S, when Extend(recordType,   *)
(* S) returns success, the Extend(recordType, S) that immediately follows  *)
(* it in the session (the backing store failing no statement) executes no  *)
(* DDL statement, returns success and leaves the physical table unchanged. *)
(***************************************************************************)
C1_ExtendTwiceIdempotent ==
  \A rt \in RecordTypes, S \in DesiredSchemas :
    \A o1 \in StagedOrders(cache, tables, rt, S, NoFault) :
      LET r1 == ExtendNow(rt, S, NoFault, o1)
      IN  r1.err = "" =>
            \A o2 \in StagedOrders(r1.cache, r1.tables, rt, S, NoFault) :
              LET r2 == ExtendAfter(r1, rt, S, NoFault, o2)
              IN  /\ r2.ddl = <<>>
                  /\ r2.err = ""
                  /\ r2.tables = r1.tables

(***************************************************************************)
(* C2: when a field of the desired schema is present in the remote schema  *)
(* Extend works from with a conflicting type (another type, and not both   *)
(* numeric), Extend returns the conflict error and executes no DDL: no     *)
(* CREATE TABLE and no ALTER TABLE, whatever other fields it has staged    *)
(* and in whatever order; the catalog is unchanged.                        *)
(***************************************************************************)
C2_ConflictExecutesNoDDL ==
  \A rt \in RecordTypes, S \in DesiredSchemas, f \in DDLFaults :
    \A order \in StagedOrders(cache, tables, rt, S, f) :
      LET r == ExtendNow(rt, S, f, order)
      IN  (\E k \in DOMAIN S \cap DOMAIN r.remote :
              ~Compatible(r.remote[k], S[k]))
            => /\ r.err = "conflict"
               /\ r.ddl = <<>>
               /\ r.tables = tables

\* an Extend has returned the conflict error having executed nothing, for a
\* table on which a desired schema has both a conflicting field and a field
\* absent remotely
C2_Witness ==
  /\ last.op = "Extend" /\ last.err = "conflict" /\ last.ddl = <<>>
  /\ last.rt \in DOMAIN cache
  /\ \E S \in DesiredSchemas :
       /\ \E k \in DOMAIN S \cap DOMAIN cache[last.rt] :
            ~Compatible(cache[last.rt][k], S[k])
       /\ DOMAIN S \ DOMAIN cache[last.rt] # {}

(***************************************************************************)
(* C3: for a record type with no backing table, an Extend that returns     *)
(* success leaves a table whose column set is exactly the eight reserved   *)
(* columns plus every field of the desired schema.                         *)
(***************************************************************************)
C3_CreatedTableColumns ==
  \A rt \in RecordTypes \ DOMAIN tables :
    \A S \in DesiredSchemas :
      \A order \in StagedOrders(cache, tables, rt, S, NoFault) :
        LET r == ExtendNow(rt, S, NoFault, order)
        IN  r.err = "" =>
              /\ rt \in DOMAIN r.tables
              /\ ColNames(r.tables[rt].cols) =
                   {"_id", "_database_id", "_owner_id", "_access", "_created_at",
                    "_created_by", "_updated_at", "_updated_by"} \cup DOMAIN S
              /\ Len(r.tables[rt].cols) = 8 + Cardinality(DOMAIN S)

\* an Extend has created the table and added fields to it
C3_Witness ==
  /\ last.op = "Extend" /\ last.err = ""
  /\ last.ddl = <<Stmt("CREATE TABLE", TRUE), Stmt("CREATE TRIGGER", TRUE),
                  Stmt("ALTER TABLE ADD", TRUE)>>
  /\ ColNames(tables[last.rt].cols) = ReservedColumns \cup FieldNames

(***************************************************************************)
(* C4: after Extend returns success for a record type, the GetSchema that  *)
(* follows it (the catalog queries succeeding) returns the schema derived  *)
(* from the table's current physical columns, every column Extend has just *)
(* added included, also when a schema of the record type was cached before *)
(* the Extend: Extend leaves no cache entry for the record type.           *)
(***************************************************************************)
C4_GetSchemaAfterExtend ==
  /\ (last.op = "Extend" /\ last.err = "") => last.rt \notin DOMAIN cache
  /\ \A rt \in RecordTypes, S \in DesiredSchemas :
       \A order \in StagedOrders(cache, tables, rt, S, NoFault) :
         LET r == ExtendNow(rt, S, NoFault, order)
             g == remoteColumnTypes(r.cache, r.tables, rt, "none", 0)
         IN  r.err = "" =>
               /\ g.err = "" /\ ~g.isNil
               /\ g.schema = PhysicalSchema(r.tables, rt)
               /\ DOMAIN S \ DOMAIN r.remote \subseteq DOMAIN g.schema
               /\ ReservedColumns \subseteq DOMAIN g.schema

\* an Extend has added columns to a table that existed, its schema cached
\* while Extend ran, and has left no cache entry
C4_Witness ==
  /\ last.op = "Extend" /\ last.err = ""
  /\ last.ddl = <<Stmt("ALTER TABLE ADD", TRUE)>>
  /\ last.rt \notin DOMAIN cache

(***************************************************************************)
(* C5: after RenameSchema or DeleteSchema returns success for a record     *)
(* type, the cache entry of that record type has been invalidated, so the  *)
(* next GetSchema reflects the renamed or dropped column.                  *)
(***************************************************************************)
C5_RenameDeleteInvalidate ==
  (last.op \in {"RenameSchema", "DeleteSchema"} /\ last.err = "") =>
    /\ last.rt \notin DOMAIN cache
    /\ remoteColumnTypes(cache, tables, last.rt, "none", 0).schema =
         PhysicalSchema(tables, last.rt)

(***************************************************************************)
(* C6: whenever an Extend call has executed a structural mutation of a     *)
(* record type (a CREATE TABLE or an ALTER TABLE that took effect), the    *)
(* cache holds no entry for that record type when Extend returns, with     *)
(* success or with an error.                                               *)
(***************************************************************************)
C6_MutationInvalidates ==
  (/\ last.op = "Extend"
   /\ \/ TookEffect(last.ddl, "CREATE TABLE")
      \/ TookEffect(last.ddl, "ALTER TABLE ADD"))
    => last.rt \notin DOMAIN cache

(***************************************************************************)
(* C7: when introspection of a record type fails at any step, the cache    *)
(* holds no entry for that record type afterwards, so that a later         *)
(* introspection queries the catalog again.                                *)
(***************************************************************************)
C7_FailedIntrospectionNotCached ==
  (last.op \in {"GetSchema", "Extend"} /\ last.err = "introspect") =>
    /\ last.rt \notin DOMAIN cache
    /\ remoteColumnTypes(cache, tables, last.rt, "none", 0).queries > 0

(***************************************************************************)
(* C8: GetSchema of a record type that has no backing table returns an     *)
(* empty or nil schema and no error (the oid lookup itself succeeding), on *)
(* the first call and on a repeated call while the table remains absent,   *)
(* and GetSchema issues no DDL.                                            *)
(***************************************************************************)
C8_AbsentTableIsEmptySchema ==
  /\ last.op = "GetSchema" => last.ddl = <<>>
  /\ \A rt \in RecordTypes \ DOMAIN tables :
       LET g1 == remoteColumnTypes(cache, tables, rt, "none", 0)
           g2 == remoteColumnTypes(g1.cache, tables, rt, "none", 0)
       IN  /\ g1.err = "" /\ DOMAIN g1.schema = {}
           /\ g2.err = "" /\ DOMAIN g2.schema = {}

\* GetSchema has returned without error for a record type with no table,
\* and the next call is a repeated one
C8_Witness ==
  /\ last.op = "GetSchema" /\ last.err = ""
  /\ last.rt \notin DOMAIN tables
  /\ last.rt \in DOMAIN cache

(***************************************************************************)
(* C9: for a field present remotely, Extend treats remote type R and       *)
(* desired type D as compatible (success and no DDL for that field) when   *)
(* they have the same type tag or are both among Number, Integer and       *)
(* Sequence, and as a conflict for every other pair.                       *)
(***************************************************************************)
C9_CompatibleOrConflict ==
  \A rt \in RecordTypes :
    /\ \A k \in FieldNames : \A D \in FieldTypes(k) :
         LET S == [x \in {k} |-> D]
             r == ExtendNow(rt, S, NoFault, <<>>)
         IN  k \in DOMAIN remoteColumnTypes(cache, tables, rt, "none", 0).schema
               => IF Compatible(r.remote[k], D)
                  THEN r.err = "" /\ r.ddl = <<>> /\ r.tables = tables
                  ELSE r.err = "conflict"
    /\ \A S \in DesiredSchemas, f \in DDLFaults :
         \A order \in StagedOrders(cache, tables, rt, S, f) :
           LET r == ExtendNow(rt, S, f, order)
               present == DOMAIN S \cap DOMAIN r.remote
           IN  /\ r.err = "conflict" <=>
                    \E k \in present : ~Compatible(r.remote[k], S[k])
               /\ rt \in DOMAIN tables =>
                    \A k \in present :
                      k \in ColNames(tables[rt].cols) =>
                        ColOf(r.tables[rt].cols, k) = ColOf(tables[rt].cols, k)

\* an Extend has succeeded without DDL on a table holding a Number column
\* and a Sequence column: declared again with another numeric type
C9_Witness ==
  /\ last.op = "Extend" /\ last.err = "" /\ last.ddl = <<>>
  /\ \E i \in 1..Len(tables[last.rt].cols) :
       tables[last.rt].cols[i].typ = TypeNumber
  /\ \E k \in FieldNames : \E D \in FieldTypes(k) :
       /\ k \in DOMAIN PhysicalSchema(tables, last.rt)
       /\ PhysicalSchema(tables, last.rt)[k].Type = "Number"
       /\ D.Type = "Integer"
       /\ ExtendNow(last.rt, [x \in {k} |-> D], NoFault, <<>>).err = ""

(***************************************************************************)
(* C10: a field once created is never silently retyped: when a field is    *)
(* remotely a Reference to record type X and the desired schema declares   *)
(* it a Reference to another record type Y, Extend fails with the conflict *)
(* error instead of returning success with the column still pointing at X. *)
(***************************************************************************)
C10_ReferenceRetargetConflicts ==
  \A rt \in RecordTypes, S \in DesiredSchemas :
    \A order \in StagedOrders(cache, tables, rt, S, NoFault) :
      LET r == ExtendNow(rt, S, NoFault, order)
      IN  (\E k \in DOMAIN S \cap DOMAIN r.remote :
              /\ r.remote[k].Type = "Reference"
              /\ S[k].Type = "Reference"
              /\ r.remote[k].ReferenceType # S[k].ReferenceType)
            => r.err = "conflict"

(***************************************************************************)
(* C11: on introspection of a record type, a column of native type integer *)
(* is classified Sequence exactly when it owns the sequence named by the   *)
(* convention for that table and that column, and Integer otherwise, also  *)
(* when a sequence of another table or column has a name of that pattern;  *)
(* a column of another native type is never classified Sequence.           *)
(***************************************************************************)
C11_SequenceIffOwned ==
  \A rt \in DOMAIN tables :
    LET schema == PhysicalSchema(tables, rt)
        cols == tables[rt].cols
    IN  \A i \in 1..Len(cols) :
          /\ cols[i].name \in DOMAIN schema
          /\ IF cols[i].typ = TypeInteger /\ cols[i].fk = ""
             THEN schema[cols[i].name].Type =
                    IF cols[i].seq = Relname(rt, cols[i].name)
                    THEN "Sequence" ELSE "Integer"
             ELSE schema[cols[i].name].Type # "Sequence"

(***************************************************************************)
(* C12: on introspection, every column that carries a foreign-key          *)
(* constraint is classified Asset with no ReferenceType when the           *)
(* referenced table is _asset, and Reference with the referenced table as  *)
(* ReferenceType otherwise; nothing else is classified Asset or Reference: *)
(* a field so classified is a column of the table that carries a           *)
(* foreign-key constraint.                                                 *)
(***************************************************************************)
C12_ForeignKeyClassification ==
  \A rt \in DOMAIN tables :
    LET schema == PhysicalSchema(tables, rt)
        cols == tables[rt].cols
    IN  /\ \A i \in 1..Len(cols) :
             cols[i].fk # "" =>
               /\ cols[i].name \in DOMAIN schema
               /\ schema[cols[i].name] =
                    IF cols[i].ref = "_asset" THEN FT("Asset", "")
                    ELSE FT("Reference", cols[i].ref)
        /\ \A k \in DOMAIN schema :
             schema[k].Type \in {"Asset", "Reference"} =>
               \E i \in 1..Len(cols) : cols[i].name = k /\ cols[i].fk # ""

\* the foreign-key constraints Extend has generated, each with the triple
\* (local column, referenced table, referenced column) it was named from
GeneratedConstraints ==
  UNION {{[name |-> tables[t].cols[i].fk,
           triple |-> <<tables[t].cols[i].name, tables[t].cols[i].ref,
                        tables[t].cols[i].refcol>>] :
            i \in {j \in 1..Len(tables[t].cols) : tables[t].cols[j].fk # ""}} :
         t \in DOMAIN tables}

(***************************************************************************)
(* C20: the name generated for the foreign-key constraint of a staged      *)
(* Reference or Asset column is a function of the triple (local column,    *)
(* referenced table, referenced column), and two different triples never   *)
(* get the same name, identifiers with underscores included.               *)
(***************************************************************************)
C20_ConstraintNameInjective ==
  \A x \in GeneratedConstraints, y \in GeneratedConstraints :
    /\ x.name = writeForeignKeyConstraint(x.triple[1], x.triple[2],
                                          x.triple[3]).name
    /\ x.triple # y.triple => x.name # y.name

(***************************************************************************)
(* C13: GetRecordSchemas returns either an error and no result mapping, or *)
(* no error and a mapping with exactly one entry, the GetSchema result,    *)
(* for every table of the schema whose name does not start with an         *)
(* underscore; when the introspection of one of those tables fails, the    *)
(* call returns an error and no mapping, whatever the tables before it     *)
(* gave.                                                                   *)
(***************************************************************************)
C13_GetRecordSchemasAllOrNothing ==
  \A rows \in Orders(DOMAIN tables \ {"_asset"}), f \in ListFaults,
     failAt \in 1..Cardinality(CatalogRecordTypes) :
    LET r == GetRecordSchemasResult(cache, tables, rows, f[1], failAt, f[2])
        failing == {i \in 1..Len(rows) :
                      remoteColumnTypes(cache, tables, rows[i],
                                        IF i = failAt THEN f[1] ELSE "none",
                                        f[2]).err # ""}
    IN  /\ IF r.err # ""
           THEN r.isNil /\ DOMAIN r.result = {}
           ELSE /\ ~r.isNil
                /\ DOMAIN r.result = DOMAIN tables \ {"_asset"}
                /\ \A t \in DOMAIN r.result :
                     r.result[t] =
                       remoteColumnTypes(cache, tables, t, "none", 0).schema
        /\ failing # {} => r.err # "" /\ r.isNil

\* GetRecordSchemas has returned an error from the introspection of one
\* table, after the table listed before it had been introspected
C13_Witness ==
  /\ last.op = "GetRecordSchemas" /\ last.err = "introspect"
  /\ \E t \in DOMAIN tables \ {"_asset"}, u \in DOMAIN tables \ {"_asset"} :
       /\ t # u
       /\ t \in DOMAIN cache /\ cache[t] = PhysicalSchema(tables, t)
       /\ u \in DOMAIN cache /\ cache[u] # PhysicalSchema(tables, u)

\* the ALTER TABLE statements among the statements a call executed
Alters(ddl) == {i \in 1..Len(ddl) : ddl[i].stmt = "ALTER TABLE ADD"}

\* Extend returned before its ALTER TABLE step
FailedBeforeAlter(r) == r.err \in {"introspect", "create table", "conflict"}

\* every cached schema is the one the catalog gives now
CacheIsTrue == \A t \in DOMAIN cache : cache[t] = PhysicalSchema(tables, t)

(***************************************************************************)
(* C14 as stated: each Extend call executes no ALTER TABLE statement when  *)
(* every desired field is present in the remote schema, and exactly one    *)
(* when at least one desired field is absent from it. Stated here for the  *)
(* calls made while the cache is true to the catalog and no statement      *)
(* fails.                                                                  *)
(***************************************************************************)
C14_AlterWheneverFieldAbsent ==
  CacheIsTrue =>
    \A rt \in RecordTypes, S \in DesiredSchemas :
      \A order \in StagedOrders(cache, tables, rt, S, NoFault) :
        LET r == ExtendNow(rt, S, NoFault, order)
        IN  Cardinality(Alters(r.ddl)) =
              IF DOMAIN S \subseteq DOMAIN r.remote THEN 0 ELSE 1

(***************************************************************************)
(* C14 as amended: each Extend call executes at most one ALTER TABLE       *)
(* statement; a call that returns before its ALTER step (failed            *)
(* introspection, failed table creation, conflict) executes none; a call   *)
(* that gets there executes none when every desired field is present in    *)
(* the remote schema and exactly one when a desired field is absent. That  *)
(* one statement adds every staged column, after the columns the table     *)
(* had, with a foreign key to _id of the referenced record type for a      *)
(* Reference field and to id of _asset for an Asset field, and no column   *)
(* comes from another statement.                                           *)
(***************************************************************************)
C14_OneAlterStatement ==
  \A rt \in RecordTypes, S \in DesiredSchemas, f \in DDLFaults :
    \A order \in StagedOrders(cache, tables, rt, S, f) :
      LET r == ExtendNow(rt, S, f, order)
          staged == DOMAIN S \ DOMAIN r.remote
          had == IF rt \in DOMAIN tables THEN Len(tables[rt].cols) ELSE 8
      IN  /\ Cardinality(Alters(r.ddl)) =
               IF FailedBeforeAlter(r) \/ staged = {} THEN 0 ELSE 1
          /\ rt \in DOMAIN r.tables =>
               LET cols == r.tables[rt].cols
               IN  IF TookEffect(r.ddl, "ALTER TABLE ADD")
                   THEN /\ Len(cols) = had + Cardinality(staged)
                        /\ {cols[i].name : i \in had + 1..Len(cols)} = staged
                        /\ \A i \in had + 1..Len(cols) :
                             LET type == S[cols[i].name]
                             IN  CASE type.Type = "Reference" ->
                                        /\ cols[i].fk # ""
                                        /\ cols[i].ref = type.ReferenceType
                                        /\ cols[i].refcol = "_id"
                                   [] type.Type = "Asset" ->
                                        /\ cols[i].fk # ""
                                        /\ cols[i].ref = "_asset"
                                        /\ cols[i].refcol = "id"
                                   [] OTHER ->
                                        cols[i].fk = "" /\ cols[i].ref = ""
                   ELSE Len(cols) = had

\* an Extend has created a table and added two columns to it, one of them
\* with a foreign key, in its one ALTER TABLE statement
C14_Witness ==
  /\ last.op = "Extend" /\ last.err = ""
  /\ last.ddl = <<Stmt("CREATE TABLE", TRUE), Stmt("CREATE TRIGGER", TRUE),
                  Stmt("ALTER TABLE ADD", TRUE)>>
  /\ Len(tables[last.rt].cols) = 10
  /\ \E i \in 9..10 : tables[last.rt].cols[i].refcol = "_id"

(***************************************************************************)
(* C15: in one session making GetSchema and Extend calls, with no other    *)
(* writer, Extend attempts CREATE TABLE and CREATE TRIGGER for a record    *)
(* type only when the record type has no table: when the table exists, an  *)
(* Extend call executes neither statement, whatever the earlier calls of   *)
(* the session returned.                                                   *)
(***************************************************************************)
C15_CreateOnlyWhenAbsent ==
  \A rt \in RecordTypes \cap DOMAIN tables :
    \A S \in DesiredSchemas :
      \A order \in StagedOrders(cache, tables, rt, S, NoFault) :
        LET r == ExtendNow(rt, S, NoFault, order)
        IN  /\ ~Executed(r.ddl, "CREATE TABLE")
            /\ ~Executed(r.ddl, "CREATE TRIGGER")


(***************************************************************************)
(* C16: two sessions with separate caches call Extend concurrently for a   *)
(* record type that has no table.  In every interleaving at most one       *)
(* CREATE TABLE takes effect; a session whose CREATE TABLE was rejected    *)
(* has returned that error after this single statement, with no further    *)
(* statement executed; and what a session created stays: the table keeps   *)
(* the eight reserved columns in the positions CREATE TABLE gave them, the *)
(* trigger once created, and every column a successful ALTER appended.     *)
(***************************************************************************)
Attempted(s) ==
  Len(last[s].ddl) > 0 /\ last[s].ddl[1].stmt = "CREATE TABLE"

Lost(s) ==
  Attempted(s) /\ ~last[s].ddl[1].ok

C16_RaceOnCreate ==
  /\ Cardinality({s \in Sessions : TookEffect(last[s].ddl, "CREATE TABLE")}) <= 1
  /\ \A s \in Sessions :
       /\ Lost(s) =>
            /\ last[s].pc = "done"
            /\ last[s].err = "create table"
            /\ last[s].ddl = <<Stmt("CREATE TABLE", FALSE)>>
       /\ TookEffect(last[s].ddl, "CREATE TABLE") =>
            /\ RaceRecordType \in DOMAIN tables
            /\ Len(tables[RaceRecordType].cols) >= Len(createTableStmt)
            /\ SubSeq(tables[RaceRecordType].cols, 1, Len(createTableStmt))
                 = createTableStmt
       /\ TookEffect(last[s].ddl, "CREATE TRIGGER") =>
            /\ RaceRecordType \in DOMAIN tables
            /\ tables[RaceRecordType].trigger
       /\ TookEffect(last[s].ddl, "ALTER TABLE ADD") =>
            /\ RaceRecordType \in DOMAIN tables
            /\ \A k \in DOMAIN last[s].S \ DOMAIN last[s].remote :
                 \E i \in 1..Len(tables[RaceRecordType].cols) :
                   /\ tables[RaceRecordType].cols[i].name = k
                   /\ tables[RaceRecordType].cols[i].typ
                        = pqDataType(last[s].S[k].Type)

\* both sessions observed an empty remote schema and attempted CREATE TABLE;
\* one lost and returned, the other went on to add its columns
C16_Witness ==
  /\ \A s \in Sessions : Attempted(s) /\ DOMAIN last[s].remote = {}
  /\ \E s \in Sessions : Lost(s)
  /\ \E s \in Sessions : TookEffect(last[s].ddl, "ALTER TABLE ADD")


(***************************************************************************)
(* C17: Extend is additive-only.  Whatever the record type, the declared   *)
(* schema and the statement the backing store fails, after the call every  *)
(* table that existed still exists, every column the record type's table   *)
(* had is still there with the same name and native type, the tables of    *)
(* other record types are unchanged, and the only statements executed are  *)
(* CREATE TABLE, CREATE TRIGGER and ALTER TABLE ... ADD.                    *)
(***************************************************************************)
AdditiveStatements == {"CREATE TABLE", "CREATE TRIGGER", "ALTER TABLE ADD"}

C17_ExtendAdditiveOnly ==
  \A rt \in RecordTypes, S \in DesiredSchemas, f \in ExtendFaults :
    \A order \in StagedOrders(cache, tables, rt, S, f) :
      LET r == ExtendNow(rt, S, f, order)
      IN  /\ \A i \in 1..Len(r.ddl) : r.ddl[i].stmt \in AdditiveStatements
          /\ \A t \in DOMAIN tables :
               /\ t \in DOMAIN r.tables
               /\ t # rt => r.tables[t] = tables[t]
               /\ \A i \in 1..Len(tables[t].cols) :
                    \E j \in 1..Len(r.tables[t].cols) :
                      /\ r.tables[t].cols[j].name = tables[t].cols[i].name
                      /\ r.tables[t].cols[j].typ = tables[t].cols[i].typ

\* an Extend has added a column to a table that already had columns of
\* its own, next to the table of another record type
C17_Witness ==
  /\ last.op = "Extend"
  /\ last.ddl = <<Stmt("ALTER TABLE ADD", TRUE)>>
  /\ Len(tables[last.rt].cols) = Len(createTableStmt) + 2
  /\ DOMAIN tables # {last.rt}


(***************************************************************************)
(* C18: when the cache holds an entry for a record type, introspection of  *)
(* it returns exactly the cached schema, with no error, no catalog query   *)
(* (so no failure of the backing store can strike) and the cache           *)
(* unchanged, and this is the remote schema Extend works from; on a miss   *)
(* that succeeds, the cache afterwards holds under that record type the    *)
(* schema that is returned, empty or not, and its other entries are as     *)
(* before.                                                                 *)
(***************************************************************************)
C18_CacheHitAndStore ==
  \A rt \in CatalogRecordTypes, f \in IntrospectFaults :
    LET r == remoteColumnTypes(cache, tables, rt, f[1], f[2])
    IN  IF rt \in DOMAIN cache
        THEN /\ r.schema = cache[rt]
             /\ r.err = ""
             /\ r.queries = 0
             /\ r.cache = cache
             /\ \A S \in CatalogSchemas :
                  \A order \in StagedOrders(cache, tables, rt, S, f) :
                    ExtendNow(rt, S, f, order).remote = cache[rt]
        ELSE r.err = "" =>
               /\ r.queries >= 1
               /\ DOMAIN r.cache = DOMAIN cache \cup {rt}
               /\ r.cache[rt] = r.schema
               /\ \A o \in DOMAIN cache : r.cache[o] = cache[o]

\* a GetSchema on a miss has stored an empty schema for a record type with
\* no table, while the cache holds the columns of another record type
C18_Witness ==
  /\ last.op = "GetSchema" /\ last.err = ""
  /\ last.rt \in DOMAIN cache /\ last.rt \notin DOMAIN tables
  /\ cache[last.rt] = EmptySchema
  /\ \E o \in DOMAIN cache : DOMAIN cache[o] # {}


(***************************************************************************)
(* C19: introspection gives each column it returns one semantic type, a    *)
(* jsonb column being ACL when it is named _access and JSON otherwise;     *)
(* and when the table has a column whose native type is not a known one,   *)
(* introspection returns no schema and the error that names this native    *)
(* type and column, GetSchema, Extend and GetRecordSchemas returning an    *)
(* error too.                                                              *)
(***************************************************************************)
C19_UnknownTypeSurfaced ==
  \A rt \in CatalogRecordTypes :
    rt \in DOMAIN tables =>
      LET cols == tables[rt].cols
          unknown == FirstUnknown(cols)
          r == remoteColumnTypes(cache, tables, rt, "none", 0)
      IN  IF unknown <= Len(cols)
          THEN /\ r.err = UnknownTypeError(cols[unknown])
               /\ r.isNil
               /\ \A S \in CatalogSchemas :
                    \A order \in StagedOrders(cache, tables, rt, S, NoFault) :
                      ExtendNow(rt, S, NoFault, order).err = "introspect"
               /\ \A rows \in Orders(ListedTables(tables)) :
                    LET g == GetRecordSchemasResult(cache, tables, rows,
                                                    "none", 1, 0)
                    IN  g.err # "" /\ g.isNil
          ELSE /\ r.err = ""
               /\ \A i \in 1..Len(cols) :
                    cols[i].typ = TypeJSON /\ cols[i].name \in DOMAIN r.schema =>
                      r.schema[cols[i].name].Type =
                        IF cols[i].name = "_access" THEN "ACL" ELSE "JSON"

====
